---- MODULE Spec2Model ----
(***************************************************************************)
(* Model of the Student API (src/app.py): a Flask application whose        *)
(* handlers read and write one module-level dictionary, `students`.        *)
(*                                                                         *)
(* A JSON object is a function from field names to values.  A request body *)
(* is [kind, fields]: kind "none" stands for a body for which request.json *)
(* is None (missing or not JSON), kind "object" for a JSON object.  A      *)
(* response is [status, body].  Bodies that are JSON but not objects       *)
(* (arrays, strings, numbers) are not among the inputs: the claims checked *)
(* here are about missing bodies and JSON objects.                         *)
(*                                                                         *)
(* Spec         one request at a time, any handler, any body of Bodies.    *)
(* SpecScenario one request at a time, the bodies of the section 8 story.  *)
(* SpecConc     two threads inside create_student, line 50 and line 58 as  *)
(*              separate steps.                                            *)
(***************************************************************************)
EXTENDS Integers, FiniteSets, Sequences, TLC

VARIABLES students,   \* the dictionary of line 14: ID -> student record
          lastReq,    \* the request handled last (sequential runs)
          lastResp,   \* the response to it
          progress,   \* how many requests of Scenario the run has matched, -1 once it departed
          assigned,   \* history: the IDs handed out by create_student so far
          pc,         \* per thread: position inside create_student
          new_id,     \* per thread: the local new_id of line 50
          treq,       \* per thread: the body of the request being handled
          tresp       \* per thread: the response returned

seqVars == <<lastReq, lastResp, progress, assigned>>
concVars == <<pc, new_id, treq, tresp>>
vars == <<students, lastReq, lastResp, progress, assigned, pc, new_id, treq, tresp>>

\* Largest ID a create may hand out under Spec and SpecConc (creates beyond it are
\* not issued); the scenario of section 8 needs one more.
MaxID == 2

ScenarioMaxID == MaxID + 1

Threads == {1, 2}

(***************************************************************************)
(* Request bodies                                                          *)
(***************************************************************************)
EmptyObj == [f \in {} |-> ""]

NoBody == [kind |-> "none", fields |-> EmptyObj]

Obj(fields) == [kind |-> "object", fields |-> fields]

Extend(o, f, v) == [x \in DOMAIN o \cup {f} |-> IF x = f THEN v ELSE o[x]]

WithField(S, f, V) == S \cup {Extend(o, f, v) : o \in S, v \in V}

\* Values a client sends.  Name may be the empty string; a body may carry an 'ID'.
NameValues == {"Alice", ""}
GradeValues == {"A"}
EmailValues == {"a@x.org"}
ClientIDs == {99}

\* Every subset of Name, Grade, Email; an 'ID' on top of the bodies with at most one field.
Objects ==
    LET plain == WithField(WithField(WithField({EmptyObj},
                     "Name", NameValues), "Grade", GradeValues), "Email", EmailValues)
    IN plain \cup WithField({o \in plain : Cardinality(DOMAIN o) <= 1}, "ID", ClientIDs)

Bodies == {NoBody} \cup {Obj(o) : o \in Objects}

\* The bodies of the scenario of section 8.
Alice == Obj([Name |-> "Alice"])
Bob == Obj([Name |-> "Bob", Grade |-> "B"])
Carl == Obj([Name |-> "Carl"])
ScenarioBodies == {Alice, Bob, Carl}

\* <int:student_id> of the routes: 0 is never a key
PathIds == 0..MaxID

ScenarioPathIds == 0..ScenarioMaxID

(***************************************************************************)
(* Python and Flask primitives                                             *)
(***************************************************************************)
\* dict.get(key, default)
Get(o, key, default) == IF key \in DOMAIN o THEN o[key] ELSE default

\* truthiness of request.json: None and the empty dict are falsy
Truthy(body) == body.kind = "object" /\ DOMAIN body.fields # {}

Max(S) == CHOOSE x \in S : \A y \in S : y <= x

\* d[k] = v
Put(d, k, v) == [x \in DOMAIN d \cup {k} |-> IF x = k THEN v ELSE d[x]]

\* d.popitem() in place of del d[k]: drops the last key
RemoveLast(d, k) == [x \in DOMAIN d \ {Max(DOMAIN d)} |-> d[x]]

\* del d[k]
Remove(d, k) == [x \in DOMAIN d \ {k} |-> d[x]]

\* list(d.values()): a dict lists its values in insertion order; every key is
\* inserted as max(keys) + 1, so insertion order is ascending key order.
RECURSIVE Values(_)
Values(d) ==
    IF DOMAIN d = {} THEN <<>>
    ELSE LET m == Max(DOMAIN d) IN Append(Values([x \in DOMAIN d \ {m} |-> d[x]]), d[m])

Req(op, id, body) == [op |-> op, id |-> id, body |-> body]

Resp(status, body) == [status |-> status, body |-> body]

EmptyBody == [empty |-> TRUE]

\* abort(code): Flask's default error page
Abort(code) == Resp(code, [error |-> code])

\* jsonify(x), status
Json(x, status) == Resp(status, [json |-> x])

(***************************************************************************)
(* create_student                                                          *)
(***************************************************************************)
\* also rejects a falsy Name
CreateValidNonEmpty(body) ==
    Truthy(body) /\ "Name" \in DOMAIN body.fields /\ body.fields["Name"] # ""

\* line 46: the request passes unless `not request.json or 'Name' not in request.json`
CreateValid(body) == Truthy(body) /\ "Name" \in DOMAIN body.fields

\* len(students) + 1
NewIdLen(d) == Cardinality(DOMAIN d) + 1

\* the smallest ID not in use
NewIdFill(d) == CHOOSE i \in 1..(Cardinality(DOMAIN d) + 1) :
                    i \notin DOMAIN d /\ \A j \in 1..(i - 1) : j \in DOMAIN d

\* line 50: max(students.keys(), default=0) + 1
NewId(d) == Max(DOMAIN d \cup {0}) + 1

DefaultGradeBlank == ""

\* line 54
DefaultGrade == "N/A"

\* line 55
DefaultEmail == ""

\* lines 51-56
NewStudent(id, o) ==
    [ID |-> id,
     Name |-> o["Name"],
     Grade |-> Get(o, "Grade", DefaultGrade),
     Email |-> Get(o, "Email", DefaultEmail)]

(***************************************************************************)
(* update_student                                                          *)
(***************************************************************************)
\* student.update(request.json)
UpdateFieldsAll == {"ID", "Name", "Grade", "Email"}

\* line 75 left out
UpdateFieldsNoEmail == {"Name", "Grade"}

\* the keys lines 73-75 assign
UpdateFields == {"Name", "Grade", "Email"}

\* request.json.get(f, '')
MergeFieldBlank(student, o, f) == Get(o, f, "")

\* request.json.get(f, student[f])
MergeField(student, o, f) == Get(o, f, student[f])

Merged(student, o) ==
    [f \in DOMAIN student |-> IF f \in UpdateFields THEN MergeField(student, o, f) ELSE student[f]]

(***************************************************************************)
(* Sequential requests                                                     *)
(***************************************************************************)
Scenario == <<Req("POST", 0, Alice), Req("POST", 0, Bob), Req("DELETE", 1, NoBody), Req("POST", 0, Carl)>>

\* Records the request and its response, and follows the scenario.
Handled(req, resp) ==
    /\ lastReq' = req
    /\ lastResp' = resp
    /\ progress' = IF progress >= 0 /\ progress < Len(Scenario) /\ req = Scenario[progress + 1]
                   THEN progress + 1 ELSE -1
    /\ UNCHANGED concVars

Index ==
    /\ Handled(Req("INDEX", 0, NoBody),
               Resp(200, [text |-> "Welcome to the Student API! Try accessing /students to see all students."]))
    /\ UNCHANGED <<students, assigned>>

HealthCheck ==
    /\ Handled(Req("HEALTH", 0, NoBody), Json([status |-> "healthy"], 200))
    /\ UNCHANGED <<students, assigned>>

GetStudents ==
    /\ Handled(Req("LIST", 0, NoBody), Json(Values(students), 200))
    /\ UNCHANGED <<students, assigned>>

GetStudent(id) ==
    /\ Handled(Req("GET", id, NoBody),
               IF id \notin DOMAIN students THEN Abort(404) ELSE Json(students[id], 200))
    /\ UNCHANGED <<students, assigned>>

CreateStudent(body, cap) ==
    IF ~CreateValid(body)
    THEN /\ Handled(Req("POST", 0, body), Abort(400))
         /\ UNCHANGED <<students, assigned>>
    ELSE /\ NewId(students) <= cap
         /\ LET id == NewId(students)
                new_student == NewStudent(id, body.fields)
            IN /\ students' = Put(students, id, new_student)
               /\ assigned' = assigned \cup {id}
               /\ Handled(Req("POST", 0, body), Json(new_student, 201))

UpdateStudent(id, body) ==
    IF id \notin DOMAIN students
    THEN /\ Handled(Req("PUT", id, body), Abort(404))
         /\ UNCHANGED <<students, assigned>>
    ELSE IF ~Truthy(body)
    THEN /\ Handled(Req("PUT", id, body), Abort(400))
         /\ UNCHANGED <<students, assigned>>
    ELSE LET student == Merged(students[id], body.fields)
         IN /\ students' = Put(students, id, student)
            /\ Handled(Req("PUT", id, body), Json(student, 200))
            /\ UNCHANGED assigned

DeleteStudent(id) ==
    /\ IF id \in DOMAIN students
       THEN /\ students' = Remove(students, id)
            /\ Handled(Req("DELETE", id, NoBody), Resp(204, EmptyBody))
       ELSE /\ Handled(Req("DELETE", id, NoBody), Abort(404))
            /\ UNCHANGED students
    /\ UNCHANGED assigned

Init ==
    /\ students = [k \in {} |-> EmptyObj]
    /\ lastReq = Req("NONE", 0, NoBody)
    /\ lastResp = Resp(0, EmptyBody)
    /\ progress = 0
    /\ assigned = {}
    /\ pc = [t \in Threads |-> "idle"]
    /\ new_id = [t \in Threads |-> 0]
    /\ treq = [t \in Threads |-> NoBody]
    /\ tresp = [t \in Threads |-> Resp(0, EmptyBody)]

Next ==
    \/ Index
    \/ HealthCheck
    \/ GetStudents
    \/ \E id \in PathIds : GetStudent(id)
    \/ \E body \in Bodies : CreateStudent(body, MaxID)
    \/ \E id \in PathIds, body \in Bodies : UpdateStudent(id, body)
    \/ \E id \in PathIds : DeleteStudent(id)

Spec == Init /\ [][Next]_vars

NextScenario ==
    \/ \E id \in ScenarioPathIds : GetStudent(id)
    \/ \E body \in ScenarioBodies : CreateStudent(body, ScenarioMaxID)
    \/ \E id \in ScenarioPathIds : DeleteStudent(id)

SpecScenario == Init /\ [][NextScenario]_vars

(***************************************************************************)
(* Two threads inside create_student.  A thread switch may fall between    *)
(* the read of max(students.keys()) on line 50 and the store on line 58.   *)
(***************************************************************************)
ConcBodies == {NoBody, Obj([Name |-> "Alice"]), Obj([Name |-> "Bob", Grade |-> "B"])}

\* the key computed again at the store
InsertKeyFresh(t) == NewId(students)

\* the key line 58 stores under: the local computed on line 50
InsertKey(t) == new_id[t]

\* line 46
CStart(t, body) ==
    /\ pc[t] = "idle"
    /\ treq' = [treq EXCEPT ![t] = body]
    /\ IF ~CreateValid(body)
       THEN /\ tresp' = [tresp EXCEPT ![t] = Abort(400)]
            /\ pc' = [pc EXCEPT ![t] = "done"]
       ELSE /\ tresp' = [tresp EXCEPT ![t] = Resp(0, EmptyBody)]
            /\ pc' = [pc EXCEPT ![t] = "read"]
    /\ UNCHANGED <<students, new_id, seqVars>>

\* line 50
CReadMax(t) ==
    /\ pc[t] = "read"
    /\ NewId(students) <= MaxID
    /\ new_id' = [new_id EXCEPT ![t] = NewId(students)]
    /\ pc' = [pc EXCEPT ![t] = "insert"]
    /\ UNCHANGED <<students, treq, tresp, seqVars>>

\* lines 51-59
CInsert(t) ==
    /\ pc[t] = "insert"
    /\ LET new_student == NewStudent(InsertKey(t), treq[t].fields)
       IN /\ students' = Put(students, InsertKey(t), new_student)
          /\ tresp' = [tresp EXCEPT ![t] = Json(new_student, 201)]
    /\ pc' = [pc EXCEPT ![t] = "done"]
    /\ UNCHANGED <<new_id, treq, seqVars>>

\* the thread takes its next request
CReturn(t) ==
    /\ pc[t] = "done"
    /\ pc' = [pc EXCEPT ![t] = "idle"]
    /\ UNCHANGED <<students, new_id, treq, tresp, seqVars>>

NextConc ==
    \/ \E t \in Threads, body \in ConcBodies : CStart(t, body)
    \/ \E t \in Threads : CReadMax(t)
    \/ \E t \in Threads : CInsert(t)
    \/ \E t \in Threads : CReturn(t)

SpecConc == Init /\ [][NextConc]_vars

(***************************************************************************)
(* Properties                                                              *)
(***************************************************************************)
Created == lastReq.op = "POST" /\ lastResp.status = 201

CreatedNow == lastReq'.op = "POST" /\ lastResp'.status = 201

StudentOf(name, grade, email, id) == [ID |-> id, Name |-> name, Grade |-> grade, Email |-> email]

\* C1 (as stated): the ID of every 201 response is 1 + the largest ID any earlier
\* create handed out, deleted records included (1 when there was none).
C1_IdAboveEveryAssigned ==
    [][CreatedNow => lastResp'.body.json.ID = Max(assigned \cup {0}) + 1]_vars

\* C1 (amended): the ID of every 201 response is 1 + the largest ID in the store
\* when the request arrives (1 when the store is empty): it is above every stored
\* ID, and it is 1 or its predecessor is stored.
C1_IdAboveEveryStored ==
    [][CreatedNow =>
         LET id == lastResp'.body.json.ID
         IN /\ \A k \in DOMAIN students : k < id
            /\ id = 1 \/ id - 1 \in DOMAIN students]_vars

\* a create answered after a record was deleted
C1_Witness == Created /\ assigned \ DOMAIN students # {}

\* C2 (as stated): after POST Alice, POST Bob (Grade B), DELETE /students/1, the
\* POST of Carl is answered 201 with ID 2.
C2_CarlGetsTwo ==
    progress = Len(Scenario) => lastResp.status = 201 /\ lastResp.body.json.ID = 2

\* C2 (amended): from the empty store POST Alice is answered 201 with ID 1, POST Bob
\* (Grade B) 201 with ID 2, DELETE /students/1 204, and POST Carl 201 with ID 3.
C2_CarlGetsThree ==
    /\ progress = 1 => lastResp = Json(StudentOf("Alice", "N/A", "", 1), 201)
    /\ progress = 2 => lastResp = Json(StudentOf("Bob", "B", "", 2), 201)
    /\ progress = 3 => lastResp = Resp(204, EmptyBody)
    /\ progress = 4 => lastResp = Json(StudentOf("Carl", "N/A", "", 3), 201)

\* the four requests of the scenario have been handled, in order, from the empty store
C2_Witness == progress = Len(Scenario) /\ lastReq = Req("POST", 0, Carl)

\* C3: every record stored under key k has ID = k, k a positive integer, whatever
\* the bodies of the requests carried (an 'ID' field included).
C3_KeyIsId ==
    \A k \in DOMAIN students : k \in Nat /\ k > 0 /\ students[k].ID = k

\* an update whose body carried an 'ID' was answered 200
C3_Witness ==
    /\ lastReq.op = "PUT"
    /\ lastResp.status = 200
    /\ "ID" \in DOMAIN lastReq.body.fields

\* C4: a PUT answered 200 whose body supplies some of Name, Grade, Email sets exactly
\* those fields of the record to the supplied values, keeps its other fields (ID
\* included), keeps every other record and the set of IDs, and returns the record.
C4_PartialUpdate ==
    [][(/\ lastReq'.op = "PUT"
        /\ lastResp'.status = 200
        /\ DOMAIN lastReq'.body.fields \cap {"Name", "Grade", "Email"} # {})
       => LET id == lastReq'.id
              o == lastReq'.body.fields
          IN /\ DOMAIN students' = DOMAIN students
             /\ \A k \in DOMAIN students \ {id} : students'[k] = students[k]
             /\ \A f \in {"Name", "Grade", "Email"} :
                    students'[id][f] = IF f \in DOMAIN o THEN o[f] ELSE students[id][f]
             /\ students'[id].ID = students[id].ID
             /\ lastResp'.body.json = students'[id]]_vars

\* PUT {"Grade": "A"} on a record with a Name and an Email was answered 200
C4_Witness ==
    /\ lastReq.op = "PUT"
    /\ lastResp.status = 200
    /\ DOMAIN lastReq.body.fields = {"Grade"}
    /\ students[lastReq.id] = StudentOf("Alice", "A", "a@x.org", lastReq.id)

\* C5 (as stated): PUT is answered 404 for an id not in the store, 400 for a stored
\* id only when the body is missing or not JSON, and 200 with the merged record for
\* a stored id and any JSON object, the empty object included; 404 and 400 leave
\* the store as it was.
C5_UpdateStatus ==
    [][lastReq'.op = "PUT" =>
         LET id == lastReq'.id
             body == lastReq'.body
         IN /\ id \notin DOMAIN students => lastResp'.status = 404
            /\ (id \in DOMAIN students /\ body.kind = "none") => lastResp'.status = 400
            /\ (id \in DOMAIN students /\ body.kind = "object") =>
                   lastResp' = Json(Merged(students[id], body.fields), 200)
            /\ lastResp'.status \in {400, 404} => students' = students]_vars

\* C6: POST is answered 400 when the body is missing, not JSON, or an object without
\* Name, and then the store (from which the next ID is computed) is unchanged; every
\* body with a Name is answered 201.
C6_CreateStatus ==
    [][lastReq'.op = "POST" =>
         LET body == lastReq'.body
         IN /\ (body.kind = "none" \/ "Name" \notin DOMAIN body.fields) =>
                   /\ lastResp'.status = 400
                   /\ students' = students
                   /\ Max(DOMAIN students' \cup {0}) = Max(DOMAIN students \cup {0})
            /\ (body.kind = "object" /\ "Name" \in DOMAIN body.fields) =>
                   lastResp'.status = 201]_vars

\* POST {} was answered 400 by a store that holds records
C6_Witness ==
    /\ lastReq = Req("POST", 0, Obj(EmptyObj))
    /\ lastResp.status = 400
    /\ DOMAIN students # {}

\* C7: DELETE of a stored id is answered 204 and removes that record and no other,
\* and the GET of that id handled next is answered 404; DELETE of an id not stored
\* is answered 404 and leaves the store as it was.
C7_Delete ==
    [][/\ lastReq'.op = "DELETE" =>
            IF lastReq'.id \in DOMAIN students
            THEN /\ lastResp' = Resp(204, EmptyBody)
                 /\ DOMAIN students' = DOMAIN students \ {lastReq'.id}
                 /\ \A k \in DOMAIN students' : students'[k] = students[k]
            ELSE /\ lastResp'.status = 404
                 /\ students' = students
       /\ (/\ lastReq.op = "DELETE"
           /\ lastResp.status = 204
           /\ lastReq'.op = "GET"
           /\ lastReq'.id = lastReq.id) => lastResp'.status = 404]_vars

\* the GET of a deleted id was answered 404 while other records remain
C7_Witness ==
    /\ lastReq.op = "GET"
    /\ lastResp.status = 404
    /\ lastReq.id \in assigned
    /\ DOMAIN students # {}

\* C8: a create answered 201 returns the record r it stored (Name from the body,
\* Grade from the body or 'N/A', Email from the body or '') under a new ID and
\* changes no other record; a GET returns the stored record and changes nothing,
\* so the GET of r.ID handled next is answered 200 with r.
C8_CreateThenGet ==
    [][/\ CreatedNow =>
            LET o == lastReq'.body.fields
                r == lastResp'.body.json
            IN /\ r.Name = o["Name"]
               /\ r.Grade = IF "Grade" \in DOMAIN o THEN o["Grade"] ELSE "N/A"
               /\ r.Email = IF "Email" \in DOMAIN o THEN o["Email"] ELSE ""
               /\ r.ID \notin DOMAIN students
               /\ DOMAIN students' = DOMAIN students \cup {r.ID}
               /\ students'[r.ID] = r
               /\ \A k \in DOMAIN students : students'[k] = students[k]
       /\ (lastReq'.op = "GET" /\ lastReq'.id \in DOMAIN students) =>
              /\ lastResp' = Json(students[lastReq'.id], 200)
              /\ students' = students
       /\ (Created /\ lastReq'.op = "GET" /\ lastReq'.id = lastResp.body.json.ID) =>
              lastResp' = Json(lastResp.body.json, 200)]_vars

\* the GET of a record created with Grade and Email omitted was answered 200
C8_Witness ==
    /\ lastReq.op = "GET"
    /\ lastResp = Json(StudentOf("Alice", "N/A", "", lastReq.id), 200)

\* C9: two creates that read the same maximum are both answered 201 with the same
\* ID, the store holds one record under that ID, the one inserted later, and an
\* acknowledged record that differs from it is nowhere in the store.
C9_SameMaxSameId ==
    \A t, u \in Threads :
        (/\ t # u
         /\ pc[t] = "done" /\ pc[u] = "done"
         /\ tresp[t].status = 201 /\ tresp[u].status = 201
         /\ new_id[t] = new_id[u])
        => LET rt == tresp[t].body.json
               ru == tresp[u].body.json
           IN /\ rt.ID = new_id[t] /\ ru.ID = new_id[t]
              /\ new_id[t] \in DOMAIN students
              /\ students[new_id[t]] \in {rt, ru}
              /\ rt # ru => \E r \in {rt, ru} : \A k \in DOMAIN students : students[k] # r

\* both creates were acknowledged with ID 1 and the store holds one record
C9_Witness ==
    /\ pc = [t \in Threads |-> "done"]
    /\ \A t \in Threads : tresp[t].status = 201 /\ tresp[t].body.json.ID = 1
    /\ tresp[1].body.json # tresp[2].body.json
    /\ Cardinality(DOMAIN students) = 1

\* C10 (as stated): the Name of every stored record is a non-empty string.
C10_NameNonEmpty ==
    \A k \in DOMAIN students : students[k].Name # ""

\* C10 (amended): every stored record has a Name, and it is the empty string only
\* where a create or an update of that record gave Name as the empty string:
\* such a body is accepted and its Name stored as it is.
C10_EmptyNameOnlyFromBody ==
    [][\A k \in DOMAIN students' :
          /\ "Name" \in DOMAIN students'[k]
          /\ students'[k].Name = "" =>
                \/ k \in DOMAIN students /\ students[k].Name = ""
                \/ /\ lastReq'.op \in {"POST", "PUT"}
                   /\ lastResp'.status \in {200, 201}
                   /\ lastResp'.body.json.ID = k
                   /\ "Name" \in DOMAIN lastReq'.body.fields
                   /\ lastReq'.body.fields["Name"] = ""]_vars

\* a record with an empty Name is stored
C10_Witness ==
    \E k \in DOMAIN students : students[k].Name = ""

TypeOK ==
    /\ DOMAIN students \subseteq 1..ScenarioMaxID
    /\ progress \in -1..Len(Scenario)
====
